---- MODULE Spec2Model ----
(***************************************************************************)
(* A model of src/handler.py: the RunPod handler of the Z-Image            *)
(* text-to-image worker.  One behaviour is one call of handler(job): the   *)
(* job is drawn in Init, the engine (pipe), the encoder (image.save) and   *)
(* torch.cuda are external collaborators whose outcomes are chosen         *)
(* nondeterministically where the code calls them.                         *)
(*                                                                         *)
(* Strings that can be long (the prompt) are run-length encoded: a string  *)
(* is a sequence of runs [ch, n] (n >= 1 copies of the character ch), no   *)
(* two adjacent runs holding the same character.  Bytes are 0..255.        *)
(***************************************************************************)
EXTENDS Integers, Sequences, FiniteSets, TLC

\* ------------------------------------------------------------------ bounds
\* Longest prompt of the model, in runs.
MaxRuns == 3
\* Longest PNG byte string image.save produces in the model.
MaxBytes == 3

\* ------------------------------------------------------- program constants
\* handler.py:95/97  len(prompt) > 1000, prompt[:1000]
MaxPromptLen == 1000
\* handler.py:105  9 if quality == "basic"
BasicSteps == 9
\* handler.py:105  else 16
HighSteps == 16
\* handler.py:112/114  width % 16, height % 16
DimDivisor == 16

\* ------------------------------------------------------------ RLE strings
Whitespace == {" "}
Chars == {"a", " "}
\* The run lengths the model draws: one character, the cap, one more.
RunLens == {1, MaxPromptLen, MaxPromptLen + 1}

Run(c, n) == [ch |-> c, n |-> n]

RECURSIVE StrLen(_)
\* len(s)
StrLen(s) == IF s = <<>> THEN 0 ELSE Head(s).n + StrLen(Tail(s))

RECURSIVE LStrip(_)
LStrip(s) ==
    IF s = <<>> THEN <<>>
    ELSE IF Head(s).ch \in Whitespace THEN LStrip(Tail(s))
    ELSE s

RECURSIVE RStrip(_)
RStrip(s) ==
    IF s = <<>> THEN <<>>
    ELSE IF s[Len(s)].ch \in Whitespace THEN RStrip(SubSeq(s, 1, Len(s) - 1))
    ELSE s

\* str.strip(): leading and trailing whitespace removed
Strip(s) == RStrip(LStrip(s))

RECURSIVE Prefix(_, _)
\* s[:k]
Prefix(s, k) ==
    IF k <= 0 \/ s = <<>> THEN <<>>
    ELSE IF Head(s).n <= k THEN <<Head(s)>> \o Prefix(Tail(s), k - Head(s).n)
    ELSE <<Run(Head(s).ch, k)>>

\* The strings of at most MaxRuns runs, adjacent runs of different characters.
RunSeqs ==
    { s \in UNION { [1..k -> [ch : Chars, n : RunLens]] : k \in 0..MaxRuns } :
        \A i \in 1..(Len(s) - 1) : s[i].ch # s[i + 1].ch }

\* ----------------------------------------------------------------- base64
\* The PNG bytes of the model.
ByteVals == {77, 255}
ByteSeqs == UNION { [1..k -> ByteVals] : k \in 0..MaxBytes }

\* base64's standard alphabet (RFC 4648), index 0 first
B64Alphabet == <<
    "A", "B", "C", "D", "E", "F", "G", "H", "I", "J", "K", "L", "M", "N", "O", "P",
    "Q", "R", "S", "T", "U", "V", "W", "X", "Y", "Z", "a", "b", "c", "d", "e", "f",
    "g", "h", "i", "j", "k", "l", "m", "n", "o", "p", "q", "r", "s", "t", "u", "v",
    "w", "x", "y", "z", "0", "1", "2", "3", "4", "5", "6", "7", "8", "9", "+", "/" >>

B64Char(i) == B64Alphabet[i + 1]

RECURSIVE B64Encode(_)
\* base64.b64encode(b).decode('utf-8'): three bytes to four characters, the
\* last group padded with "="
B64Encode(b) ==
    IF Len(b) = 0 THEN <<>>
    ELSE IF Len(b) = 1 THEN
        << B64Char(b[1] \div 4), B64Char((b[1] % 4) * 16), "=", "=" >>
    ELSE IF Len(b) = 2 THEN
        << B64Char(b[1] \div 4), B64Char((b[1] % 4) * 16 + b[2] \div 16),
           B64Char((b[2] % 16) * 4), "=" >>
    ELSE
        << B64Char(b[1] \div 4), B64Char((b[1] % 4) * 16 + b[2] \div 16),
           B64Char((b[2] % 16) * 4 + b[3] \div 64), B64Char(b[3] % 64) >>
        \o B64Encode(SubSeq(b, 4, Len(b)))

\* ------------------------------------------------------------- exceptions
\* Python's class hierarchy, as far as the except clauses tell classes apart:
\* torch.cuda.OutOfMemoryError < RuntimeError < Exception, KeyError < Exception.
Bases(cls) ==
    CASE cls = "OutOfMemoryError" -> {"OutOfMemoryError", "RuntimeError", "Exception"}
      [] cls = "RuntimeError"     -> {"RuntimeError", "Exception"}
      [] cls = "KeyError"         -> {"KeyError", "Exception"}
      [] cls = "AttributeError"   -> {"AttributeError", "Exception"}
      [] cls = "ValueError"       -> {"ValueError", "Exception"}
      [] OTHER                    -> {cls}

Exc(cls, msg) == [cls |-> cls, msg |-> msg]
NoExc == Exc("", "")
\* except <cls>: matches e
IsInstance(e, cls) == cls \in Bases(e.cls)

\* -------------------------------------------------------------- responses
NoArg == [kind |-> "none", n |-> 0, s |-> ""]
IntArg(n) == [kind |-> "int", n |-> n, s |-> ""]
StrArg(s) == [kind |-> "str", n |-> 0, s |-> s]
\* {"error": f"..."}: the f-string is its text with {} where the value goes
ErrorRecord(fmt, arg) == [error |-> [fmt |-> fmt, arg |-> arg]]

NoResult == [kind |-> "none", value |-> ErrorRecord("", NoArg), exc |-> NoExc]
Returned(v) == [kind |-> "returned", value |-> v, exc |-> NoExc]
Raised(e) == [kind |-> "raised", value |-> ErrorRecord("", NoArg), exc |-> e]

\* ------------------------------------------------------------------- jobs
\* A field of job["input"] is absent, or present with a value.
\* prompt: a string, or a value that is no string (a number, null)
PromptStr(s) == [kind |-> "str", runs |-> s]
PromptOther == [kind |-> "other", runs |-> <<>>]
AbsentPrompt == [kind |-> "absent", runs |-> <<>>]
\* quality, aspectRatio: strings
Str(s) == [kind |-> "str", s |-> s]
AbsentStr == [kind |-> "absent", s |-> ""]
\* width, height: JSON null, an integer, a float (n is twice its value), a
\* string holding a decimal numeral (n its value), any other string
Num(k, n) == [kind |-> k, n |-> n]
NoneVal == Num("none", 0)
AbsentNum == Num("absent", 0)

\* dict.get(key, default)
Get(field, default) == IF field.kind = "absent" THEN default ELSE field

\* bool(v) of a width/height value
Truthy(v) ==
    CASE v.kind = "none"  -> FALSE
      [] v.kind = "int"   -> v.n # 0
      [] v.kind = "float" -> v.n # 0
      [] v.kind = "str"   -> TRUE
      [] v.kind = "text"  -> TRUE

\* int(v) raises ValueError on a string that holds no numeral
IntRaises(v) == v.kind = "text"
\* int(v): an integer as it is, a float truncated toward zero, a numeral parsed
IntOf(v) ==
    CASE v.kind = "int"   -> v.n
      [] v.kind = "float" -> IF v.n >= 0 THEN v.n \div 2 ELSE -((-v.n) \div 2)
      [] v.kind = "str"   -> v.n

InputDict(p, q, a, w, h) ==
    [kind |-> "dict", prompt |-> p, quality |-> q, aspectRatio |-> a,
     width |-> w, height |-> h]
\* {}: the default of job.get("input", {})
EmptyDict == InputDict(AbsentPrompt, AbsentStr, AbsentStr, AbsentNum, AbsentNum)
\* the key "input" is absent / holds a value that is no mapping (null, a list)
InputAbsent == [EmptyDict EXCEPT !.kind = "absent"]
InputOther == [EmptyDict EXCEPT !.kind = "other"]
Job(k, i) == [kind |-> k, input |-> i]

Prompts == {AbsentPrompt, PromptOther} \cup { PromptStr(s) : s \in RunSeqs }
Qualities == {AbsentStr, Str("basic"), Str("high"), Str("ultra")}
AspectRatios == {AbsentStr, Str("16:9"), Str("1:1"), Str("9:16"), Str("4:3")}
CustomVals ==
    { AbsentNum, Num("int", 0), Num("int", -16), Num("int", 1000),
      Num("int", 1024), Num("float", 65), Num("str", 0), Num("text", 0) }

\* Envelopes that are no mapping, or hold no usable "input".
MalformedJobs ==
    { Job("other", InputAbsent), Job("dict", InputAbsent), Job("dict", InputOther) }
\* Every prompt, with a few settings of the other fields.
PromptSweep ==
    { Job("dict", InputDict(p, q, a, w, w)) :
        p \in Prompts, q \in {AbsentStr, Str("high")},
        a \in {AbsentStr, Str("9:16")}, w \in {AbsentNum, Num("int", 1024)} }
\* Every quality, aspect ratio and pair of custom dimensions, with one prompt.
DimSweep ==
    { Job("dict", InputDict(PromptStr(<<Run("a", 1)>>), q, a, w, h)) :
        q \in Qualities, a \in AspectRatios, w \in CustomVals, h \in CustomVals }
Jobs == MalformedJobs \cup PromptSweep \cup DimSweep

\* What pipe(...) does: returns an image (NoExc) or raises.
EngineOutcomes ==
    { NoExc } \cup
    { Exc(c, "engine message") :
        c \in {"OutOfMemoryError", "RuntimeError", "KeyError", "ValueError"} }
\* What image.save(...) raises when it fails.
SaveErrors == { Exc("ValueError", "encoder message") }

\* ------------------------------------------------------------------ state
VARIABLES
    pc,             \* where the call of handler is
    job,            \* the argument of handler
    cuda_available, \* torch.cuda.is_available()
    prompt, quality, aspect_ratio, custom_width, custom_height,
    num_steps, width, height, image_bytes, image_base64,  \* handler's locals
    pipe_calls,     \* the keyword arguments of each call of pipe, in order
    calls,          \* the collaborators called, in order, each with its outcome
    result          \* what the call of handler gave its caller

locals ==
    << prompt, quality, aspect_ratio, custom_width, custom_height,
       num_steps, width, height, image_bytes, image_base64 >>
vars == << pc, job, cuda_available, locals, pipe_calls, calls, result >>

Init ==
    /\ pc = "start"
    /\ job \in Jobs
    /\ cuda_available \in BOOLEAN
    /\ prompt = <<>>
    /\ quality = ""
    /\ aspect_ratio = ""
    /\ custom_width = NoneVal
    /\ custom_height = NoneVal
    /\ num_steps = 0
    /\ width = 0
    /\ height = 0
    /\ image_bytes = <<>>
    /\ image_base64 = <<>>
    /\ pipe_calls = <<>>
    /\ calls = <<>>
    /\ result = NoResult

\* ---------------------------------------------------------------- handler
\* handler_except with the catch-all clause (lines 177-179) left out
handler_except_no_catch_all(e) ==
    IF IsInstance(e, "KeyError")
        THEN Returned(ErrorRecord("Missing required field: {}", StrArg(e.msg)))
    ELSE Raised(e)

\* The except clauses of the outer try (lines 173-179), for an exception e
\* raised anywhere in its body and not caught inside.
handler_except(e) ==
    IF IsInstance(e, "KeyError")
        THEN Returned(ErrorRecord("Missing required field: {}", StrArg(e.msg)))
    ELSE IF IsInstance(e, "Exception")
        THEN Returned(ErrorRecord("Unexpected error: {}", StrArg(e.msg)))
    ELSE Raised(e)

\* The exception lines 82-88 raise on job j, NoExc when they raise none.
ExtractExc(j) ==
    IF j.kind # "dict"
        THEN Exc("AttributeError", "job has no attribute 'get'")
    ELSE IF j.input.kind = "other"
        THEN Exc("AttributeError", "input has no attribute 'get'")
    ELSE IF Get(j.input.prompt, PromptStr(<<>>)).kind # "str"
        THEN Exc("AttributeError", "prompt has no attribute 'strip'")
    ELSE NoExc

\* lines 82-88: the fields of job["input"], with their defaults
ExtractInput ==
    /\ pc = "start"
    /\ IF ExtractExc(job) # NoExc
       THEN /\ result' = handler_except(ExtractExc(job))
            /\ pc' = "done"
            /\ UNCHANGED locals
       ELSE /\ prompt' = Strip(Get(job.input.prompt, PromptStr(<<>>)).runs)
            /\ quality' = Get(job.input.quality, Str("basic")).s
            /\ aspect_ratio' = Get(job.input.aspectRatio, Str("16:9")).s
            /\ custom_width' = Get(job.input.width, NoneVal)
            /\ custom_height' = Get(job.input.height, NoneVal)
            /\ pc' = "validate_prompt"
            /\ UNCHANGED << num_steps, width, height, image_bytes, image_base64,
                            result >>
    /\ UNCHANGED << job, cuda_available, pipe_calls, calls >>

\* Truncate with the cut left out
Truncate_none(p) == p

\* lines 95-97: an overlong prompt is cut to its first 1000 characters
Truncate(p) == IF StrLen(p) > MaxPromptLen THEN Prefix(p, MaxPromptLen) ELSE p

\* lines 90-97
ValidatePrompt ==
    /\ pc = "validate_prompt"
    /\ IF prompt = <<>>
       THEN /\ result' = Returned(ErrorRecord("No prompt provided", NoArg))
            /\ pc' = "done"
            /\ UNCHANGED prompt
       ELSE /\ prompt' = Truncate(prompt)
            /\ pc' = "map_quality"
            /\ UNCHANGED result
    /\ UNCHANGED << job, cuda_available, quality, aspect_ratio, custom_width,
                    custom_height, num_steps, width, height, image_bytes,
                    image_base64, pipe_calls, calls >>

\* StepsFor with the test turned round: 16 for "high", 9 for anything else
StepsFor_high_only(q) == IF q = "high" THEN HighSteps ELSE BasicSteps

\* line 105: 9 if quality == "basic" else 16
StepsFor(q) == IF q = "basic" THEN BasicSteps ELSE HighSteps

\* lines 102-106
MapQuality ==
    /\ pc = "map_quality"
    /\ num_steps' = StepsFor(quality)
    /\ pc' = "resolve_dimensions"
    /\ UNCHANGED << job, cuda_available, prompt, quality, aspect_ratio,
                    custom_width, custom_height, width, height, image_bytes,
                    image_base64, pipe_calls, calls, result >>

\* parse_aspect_ratio with the landscape entry as its default
parse_aspect_ratio_default_landscape(a) ==
    CASE a = "16:9" -> << 1792, 1008 >>
      [] a = "1:1"  -> << 1024, 1024 >>
      [] a = "9:16" -> << 1008, 1792 >>
      [] OTHER      -> << 1792, 1008 >>

\* lines 39-54: ratios.get(aspect_ratio, (1024, 1024))
parse_aspect_ratio(a) ==
    CASE a = "16:9" -> << 1792, 1008 >>
      [] a = "1:1"  -> << 1024, 1024 >>
      [] a = "9:16" -> << 1008, 1792 >>
      [] OTHER      -> << 1024, 1024 >>

\* line 109: if custom_width and custom_height
UseCustom(w, h) == Truthy(w) /\ Truthy(h)

\* CheckDivisible with the height checked before the width
CheckDivisible_height_first(w, h) ==
    IF h % DimDivisor # 0
        THEN Returned(ErrorRecord(
            "Height must be divisible by 16 (got {}). Please adjust the height to a multiple of 16.",
            IntArg(h)))
    ELSE IF w % DimDivisor # 0
        THEN Returned(ErrorRecord(
            "Width must be divisible by 16 (got {}). Please adjust the width to a multiple of 16.",
            IntArg(w)))
    ELSE NoResult

\* lines 112-115: the error of the divisibility checks on (w, h), NoResult when
\* both pass
CheckDivisible(w, h) ==
    IF w % DimDivisor # 0
        THEN Returned(ErrorRecord(
            "Width must be divisible by 16 (got {}). Please adjust the width to a multiple of 16.",
            IntArg(w)))
    ELSE IF h % DimDivisor # 0
        THEN Returned(ErrorRecord(
            "Height must be divisible by 16 (got {}). Please adjust the height to a multiple of 16.",
            IntArg(h)))
    ELSE NoResult

\* lines 108-119
ResolveDimensions ==
    /\ pc = "resolve_dimensions"
    /\ IF UseCustom(custom_width, custom_height)
       THEN IF IntRaises(custom_width) \/ IntRaises(custom_height)
            THEN /\ result' = handler_except(
                                Exc("ValueError", "invalid literal for int()"))
                 /\ pc' = "done"
                 /\ UNCHANGED << width, height >>
            ELSE /\ width' = IntOf(custom_width)
                 /\ height' = IntOf(custom_height)
                 /\ result' = CheckDivisible(IntOf(custom_width),
                                             IntOf(custom_height))
                 /\ pc' = IF result'.kind = "none" THEN "generate" ELSE "done"
       ELSE /\ width' = parse_aspect_ratio(aspect_ratio)[1]
            /\ height' = parse_aspect_ratio(aspect_ratio)[2]
            /\ pc' = "generate"
            /\ UNCHANGED result
    /\ UNCHANGED << job, cuda_available, prompt, quality, aspect_ratio,
                    custom_width, custom_height, num_steps, image_bytes,
                    image_base64, pipe_calls, calls >>
\* generate_except with the RuntimeError clause tried first
generate_except_runtime_first(e) ==
    IF IsInstance(e, "RuntimeError")
        THEN Returned(ErrorRecord("Generation failed: {}", StrArg(e.msg)))
    ELSE IF IsInstance(e, "OutOfMemoryError")
        THEN Returned(ErrorRecord(
            "GPU out of memory. Please try with a different aspect ratio or retry.",
            NoArg))
    ELSE IF IsInstance(e, "Exception")
        THEN Returned(ErrorRecord("Image generation failed: {}", StrArg(e.msg)))
    ELSE Raised(e)

\* lines 133-146: the except clauses around the call of pipe, in the order
\* Python tries them; the response for an exception e raised by the call
generate_except(e) ==
    IF IsInstance(e, "OutOfMemoryError")
        THEN Returned(ErrorRecord(
            "GPU out of memory. Please try with a different aspect ratio or retry.",
            NoArg))
    ELSE IF IsInstance(e, "RuntimeError")
        THEN Returned(ErrorRecord("Generation failed: {}", StrArg(e.msg)))
    ELSE IF IsInstance(e, "Exception")
        THEN Returned(ErrorRecord("Image generation failed: {}", StrArg(e.msg)))
    ELSE Raised(e)

\* One call of a collaborator: its name and the exception it raised (NoExc when
\* it returned).
Call(fn, e) == [fn |-> fn, exc |-> e]

\* generate_cleanup clearing the cache after any failure of the engine
generate_cleanup_any_error(e) ==
    IF cuda_available THEN << Call("empty_cache", NoExc) >> ELSE << >>

\* lines 136-137: the collaborators the except clauses call for e
generate_cleanup(e) ==
    IF IsInstance(e, "OutOfMemoryError") /\ cuda_available
        THEN << Call("empty_cache", NoExc) >>
    ELSE << >>

\* lines 124-130: the keyword arguments of pipe(...)
PipeArgs ==
    [prompt |-> prompt, height |-> height, width |-> width,
     num_inference_steps |-> num_steps, guidance_scale |-> 0]

\* Generate calling the engine a second time after an out-of-memory error
Generate_retry ==
    /\ pc = "generate"
    /\ \E out \in EngineOutcomes :
        IF out = NoExc
        THEN /\ pipe_calls' = Append(pipe_calls, PipeArgs)
             /\ calls' = Append(calls, Call("pipe", NoExc))
             /\ pc' = "encode"
             /\ UNCHANGED result
        ELSE IF IsInstance(out, "OutOfMemoryError")
        THEN /\ pipe_calls' = pipe_calls \o << PipeArgs, PipeArgs >>
             /\ calls' = calls \o << Call("pipe", out) >> \o generate_cleanup(out)
                               \o << Call("pipe", out) >>
             /\ result' = generate_except(out)
             /\ pc' = "done"
        ELSE /\ pipe_calls' = Append(pipe_calls, PipeArgs)
             /\ calls' = Append(calls, Call("pipe", out))
             /\ result' = generate_except(out)
             /\ pc' = "done"
    /\ UNCHANGED << job, cuda_available, locals >>

\* lines 121-146
Generate ==
    /\ pc = "generate"
    /\ pipe_calls' = Append(pipe_calls, PipeArgs)
    /\ \E out \in EngineOutcomes :
        IF out = NoExc
        THEN /\ calls' = Append(calls, Call("pipe", NoExc))
             /\ pc' = "encode"
             /\ UNCHANGED result
        ELSE /\ calls' = Append(calls, Call("pipe", out)) \o generate_cleanup(out)
             /\ result' = generate_except(out)
             /\ pc' = "done"
    /\ UNCHANGED << job, cuda_available, locals >>

\* lines 161-163: the except clause around the encoding
encode_except(e) ==
    IF IsInstance(e, "Exception")
        THEN Returned(ErrorRecord("Image encoding failed: {}", StrArg(e.msg)))
    ELSE Raised(e)

\* lines 148-163
Encode ==
    /\ pc = "encode"
    /\ \/ \E e \in SaveErrors :
            /\ calls' = Append(calls, Call("save", e))
            /\ result' = encode_except(e)
            /\ pc' = "done"
            /\ UNCHANGED << image_bytes, image_base64 >>
       \/ \E b \in ByteSeqs :
            /\ image_bytes' = b
            /\ IF Len(b) = 0
               THEN /\ calls' = Append(calls, Call("save", NoExc))
                    /\ result' = Returned(ErrorRecord("Generated image is empty",
                                                      NoArg))
                    /\ pc' = "done"
                    /\ UNCHANGED image_base64
               ELSE /\ calls' = calls \o << Call("save", NoExc),
                                            Call("b64encode", NoExc) >>
                    /\ image_base64' = B64Encode(b)
                    /\ pc' = "return"
                    /\ UNCHANGED result
    /\ UNCHANGED << job, cuda_available, prompt, quality, aspect_ratio,
                    custom_width, custom_height, num_steps, width, height,
                    pipe_calls >>

\* SuccessRecord with width and height exchanged
SuccessRecord_swapped ==
    [image_base64 |-> image_base64, width |-> height, height |-> width,
     steps |-> num_steps]

\* lines 166-171: the success record
SuccessRecord ==
    [image_base64 |-> image_base64, width |-> width, height |-> height,
     steps |-> num_steps]

\* lines 165-171
ReturnResult ==
    /\ pc = "return"
    /\ result' = Returned(SuccessRecord)
    /\ pc' = "done"
    /\ UNCHANGED << job, cuda_available, locals, pipe_calls, calls >>

Next ==
    \/ ExtractInput
    \/ ValidatePrompt
    \/ MapQuality
    \/ ResolveDimensions
    \/ Generate
    \/ Encode
    \/ ReturnResult

Spec == Init /\ [][Next]_vars
\* ================================================================= claims
Done == pc = "done"
HasReturned == result.kind = "returned"
IsErrorRecord(v) == DOMAIN v = {"error"}
\* The keys a success record may hold, under the names of the specification
\* and of the code.
SuccessKeys == {"imageData", "image_base64", "width", "height", "steps"}
IsSuccessRecord(v) == "error" \notin DOMAIN v /\ DOMAIN v \subseteq SuccessKeys
EngineCalls == { i \in DOMAIN calls : calls[i].fn = "pipe" }
EngineRaised(cls) ==
    \E i \in EngineCalls : calls[i].exc # NoExc /\ calls[i].exc.cls = cls
EngineSucceeded == \E i \in EngineCalls : calls[i].exc = NoExc

\* The index of a base64 character in the alphabet.
B64Index(c) == CHOOSE i \in 0..63 : B64Char(i) = c

RECURSIVE B64Decode(_)
\* base64 decoding, by groups of four characters
B64Decode(t) ==
    IF Len(t) = 0 THEN <<>>
    ELSE LET n1 == B64Index(t[1])
             n2 == B64Index(t[2])
             b1 == n1 * 4 + n2 \div 16
         IN  IF t[3] = "=" THEN << b1 >>
             ELSE LET n3 == B64Index(t[3])
                      b2 == (n2 % 16) * 16 + n3 \div 4
                  IN  IF t[4] = "=" THEN << b1, b2 >>
                      ELSE << b1, b2, (n3 % 4) * 64 + B64Index(t[4]) >>
                           \o B64Decode(SubSeq(t, 5, Len(t)))

\* C1: whatever the job (a malformed envelope, a prompt that is no string,
\* custom dimensions that int() rejects) and whatever the engine and the
\* encoder do, the call never raises to the host, it is never stuck before it
\* has returned, it has returned exactly when it is over, and what it returned
\* is either an error record (the key error and nothing else) or a success
\* record (no key error), never both and never neither.
C1_ExactlyOneRecord ==
    /\ result.kind # "raised"
    /\ Done \/ ENABLED Next
    /\ Done <=> HasReturned
    /\ HasReturned =>
        /\ IsErrorRecord(result.value) \/ IsSuccessRecord(result.value)
        /\ ~(IsErrorRecord(result.value) /\ IsSuccessRecord(result.value))
        /\ "error" \in DOMAIN result.value =>
              DOMAIN result.value \cap SuccessKeys = {}

\* C1's case: a malformed envelope, a non-string prompt or unconvertible custom
\* dimensions ended in an error record.
C1_Witness ==
    /\ Done
    /\ HasReturned
    /\ IsErrorRecord(result.value)
    /\ result.value.error.fmt = "Unexpected error: {}"
    /\ \/ job.kind = "other"
       \/ job.input.prompt.kind = "other"
       \/ job.input.width.kind = "text"

\* C2, as stated: after a successful engine call and a non-empty encoding the
\* call returns the four fields imageData, width, height and steps.
C2_Original ==
    (Done /\ EngineSucceeded /\ image_bytes # <<>>) =>
        /\ HasReturned
        /\ DOMAIN result.value = {"imageData", "width", "height", "steps"}

\* C2, amended: after a successful engine call and a non-empty encoding the
\* call returns exactly the four fields image_base64, width, height and steps;
\* image_base64 decodes to the encoded bytes, and width, height and steps are
\* those of the one call of the engine.
C2_SuccessRecord ==
    (Done /\ EngineSucceeded /\ image_bytes # <<>>) =>
        /\ HasReturned
        /\ DOMAIN result.value = {"image_base64", "width", "height", "steps"}
        /\ B64Decode(result.value.image_base64) = image_bytes
        /\ Len(pipe_calls) = 1
        /\ result.value.width = pipe_calls[1].width
        /\ result.value.height = pipe_calls[1].height
        /\ result.value.steps = pipe_calls[1].num_inference_steps

\* C2's case: a success record for three encoded bytes and a landscape image.
C2_Witness ==
    /\ Done
    /\ EngineSucceeded
    /\ Len(image_bytes) = 3
    /\ HasReturned
    /\ IsSuccessRecord(result.value)
    /\ result.value.width # result.value.height

\* C3, as stated: the width and the height of every engine call are positive
\* multiples of 16.
C3_Original ==
    \A i \in DOMAIN pipe_calls :
        /\ pipe_calls[i].width > 0
        /\ pipe_calls[i].height > 0
        /\ pipe_calls[i].width % 16 = 0
        /\ pipe_calls[i].height % 16 = 0
\* --------------------------------------------- the reference for prompts
\* The runs of s that hold a character that is no whitespace.
NonWs(s) == { j \in DOMAIN s : s[j].ch # " " }
RECURSIVE Offset(_, _)
\* The number of characters of s before run j.
Offset(s, j) == IF j <= 1 THEN 0 ELSE Offset(s, j - 1) + s[j - 1].n
RefLen(s) == Offset(s, Len(s) + 1)
\* The positions of the first and of the last character that is no
\* whitespace; 1 and 0 when there is none.
FirstPos(s) ==
    IF NonWs(s) = {} THEN 1
    ELSE Offset(s, CHOOSE j \in NonWs(s) : \A k \in NonWs(s) : j <= k) + 1
LastPos(s) ==
    IF NonWs(s) = {} THEN 0
    ELSE Offset(s, (CHOOSE j \in NonWs(s) : \A k \in NonWs(s) : j >= k) + 1)
TrimmedLen(s) == LastPos(s) - FirstPos(s) + 1
Max(a, b) == IF a >= b THEN a ELSE b
Min(a, b) == IF a <= b THEN a ELSE b
RECURSIVE SliceFrom(_, _, _, _)
\* The characters of runs j.. of s at the positions lo..hi of s.
SliceFrom(s, j, lo, hi) ==
    IF j > Len(s) THEN <<>>
    ELSE LET n == Min(Offset(s, j + 1), hi) - Max(Offset(s, j) + 1, lo) + 1
         IN  (IF n > 0 THEN << [ch |-> s[j].ch, n |-> n] >> ELSE <<>>)
             \o SliceFrom(s, j + 1, lo, hi)
Slice(s, lo, hi) == SliceFrom(s, 1, lo, hi)
\* The envelope and its input are mappings (or the input is absent).
Envelope == job.kind = "dict" /\ job.input.kind # "other"
RawPrompt == job.input.prompt.runs

\* C4: the prompt of every engine call is the trimmed input when that has 1
\* to 1000 characters and its first 1000 characters when it has more, so it
\* is never empty and never longer than 1000; a prompt that is absent, empty
\* or all whitespace gives the error "No prompt provided" and no engine call.
C4_PromptPassed ==
    /\ \A i \in DOMAIN pipe_calls :
        /\ job.input.prompt.kind = "str"
        /\ TrimmedLen(RawPrompt) >= 1
        /\ pipe_calls[i].prompt =
              Slice(RawPrompt, FirstPos(RawPrompt),
                    IF TrimmedLen(RawPrompt) <= 1000 THEN LastPos(RawPrompt)
                    ELSE FirstPos(RawPrompt) + 999)
        /\ RefLen(pipe_calls[i].prompt) >= 1
        /\ RefLen(pipe_calls[i].prompt) <= 1000
    /\ ( /\ Done
         /\ Envelope
         /\ \/ job.input.prompt.kind = "absent"
            \/ job.input.prompt.kind = "str" /\ NonWs(RawPrompt) = {} )
       => /\ result = Returned(ErrorRecord("No prompt provided", NoArg))
          /\ pipe_calls = <<>>

\* C4's case: an input with leading whitespace and more than 1000 characters
\* after trimming reached the engine, cut to 1000.
C4_Witness ==
    /\ pipe_calls # <<>>
    /\ FirstPos(RawPrompt) > 1
    /\ TrimmedLen(RawPrompt) > 1000
    /\ RefLen(pipe_calls[1].prompt) = 1000

\* ------------------------------------------ the reference for dimensions
WidthMessage ==
    "Width must be divisible by 16 (got {}). Please adjust the width to a multiple of 16."
HeightMessage ==
    "Height must be divisible by 16 (got {}). Please adjust the height to a multiple of 16."
CustomW == job.input.width
CustomH == job.input.height
\* A custom value that is present (the key is there, with an integer).
Present(v) == v.kind = "int"
\* A custom value that is present and is not zero (nor null).
Supplied(v) ==
    /\ v.kind \notin {"absent", "none"}
    /\ ~(v.kind \in {"int", "float"} /\ v.n = 0)
\* The integer a supplied value stands for: a float (n is twice its value)
\* loses its fraction.
IntegerOf(v) ==
    IF v.kind = "float"
    THEN (IF v.n >= 0 THEN (v.n - (v.n % 2)) \div 2 ELSE (v.n + (v.n % 2)) \div 2)
    ELSE v.n
AspectToken ==
    IF job.input.aspectRatio.kind = "absent" THEN "16:9"
    ELSE job.input.aspectRatio.s
\* The fixed table.
RefTable(a) ==
    IF a = "16:9" THEN << 1792, 1008 >>
    ELSE IF a = "9:16" THEN << 1008, 1792 >>
    ELSE << 1024, 1024 >>
PromptValid ==
    Envelope /\ job.input.prompt.kind = "str" /\ NonWs(RawPrompt) # {}
\* The dimensions are resolved / the request ended at their resolution.
DimsResolved ==
    pc \in {"generate", "encode", "return"} \/ (Done /\ pipe_calls # <<>>)
DimsRejected == Done /\ pipe_calls = <<>> /\ PromptValid
DimsAre(d) ==
    /\ DimsResolved
    /\ << width, height >> = d
    /\ \A i \in DOMAIN pipe_calls :
          << pipe_calls[i].width, pipe_calls[i].height >> = d
DimsErrorIs(fmt, arg) ==
    DimsRejected /\ result = Returned(ErrorRecord(fmt, arg))
\* The request was rejected for its prompt or its custom dimensions.
InvalidInputFmts == {"No prompt provided", WidthMessage, HeightMessage}

C6_Original ==
    ( /\ DimsResolved \/ DimsRejected
      /\ CustomW.kind \in {"absent", "int"}
      /\ CustomH.kind \in {"absent", "int"} )
    => IF Present(CustomW) /\ Present(CustomH)
       THEN IF CustomW.n % 16 # 0
                THEN DimsErrorIs(WidthMessage, IntArg(CustomW.n))
            ELSE IF CustomH.n % 16 # 0
                THEN DimsErrorIs(HeightMessage, IntArg(CustomH.n))
            ELSE DimsAre(<< CustomW.n, CustomH.n >>)
       ELSE DimsAre(RefTable(AspectToken))

\* C6, amended: a custom value counts as supplied when it is present and not
\* zero (nor null).  When both are supplied a value with no integer reading
\* gives the error "Unexpected error"; otherwise their integer readings must
\* both be multiples of 16 (the error names the dimension and its value, the
\* width first) and are then passed to the engine, whatever the aspect ratio.
\* In every other case the fixed table decides.
C6_DimensionReference ==
    (DimsResolved \/ DimsRejected)
    => IF Supplied(CustomW) /\ Supplied(CustomH)
       THEN IF CustomW.kind = "text" \/ CustomH.kind = "text"
                THEN /\ DimsRejected
                     /\ HasReturned
                     /\ IsErrorRecord(result.value)
                     /\ result.value.error.fmt = "Unexpected error: {}"
            ELSE IF IntegerOf(CustomW) % 16 # 0
                THEN DimsErrorIs(WidthMessage, IntArg(IntegerOf(CustomW)))
            ELSE IF IntegerOf(CustomH) % 16 # 0
                THEN DimsErrorIs(HeightMessage, IntArg(IntegerOf(CustomH)))
            ELSE DimsAre(<< IntegerOf(CustomW), IntegerOf(CustomH) >>)
       ELSE DimsAre(RefTable(AspectToken))

\* C6's case: both custom values are supplied and both are invalid; the error
\* names the width.
C6_Witness ==
    /\ Done
    /\ CustomW = Num("int", 1000)
    /\ CustomH = Num("int", 1000)
    /\ result = Returned(ErrorRecord(WidthMessage, IntArg(1000)))
\* ------------------------------------------------- quality and defaults
Quality == job.input.quality
Aspect == job.input.aspectRatio
\* The step count is resolved.
StepsResolved ==
    pc \in {"resolve_dimensions", "generate", "encode", "return"}
    \/ pipe_calls # <<>>
\* The step count handler works with is n, in its local, in every engine call
\* and in the success record.
StepsAre(n) ==
    /\ num_steps = n
    /\ \A i \in DOMAIN pipe_calls : pipe_calls[i].num_inference_steps = n
    /\ (HasReturned /\ IsSuccessRecord(result.value)) => result.value.steps = n
\* The fixed table decides the dimensions.
TableUsed == ~(Supplied(CustomW) /\ Supplied(CustomH))

\* C7: the step count passed to the engine and reported as steps is 9 when
\* quality is "basic" or absent and 16 for every other value, whatever the
\* prompt and the dimensions.
C7_QualitySteps ==
    StepsResolved =>
        IF Quality.kind = "absent" \/ Quality.s = "basic"
        THEN StepsAre(9)
        ELSE StepsAre(16)

\* C7's case: the unrecognized quality "ultra" gave a success record with 16
\* steps.
C7_Witness ==
    /\ Done
    /\ Quality = Str("ultra")
    /\ HasReturned
    /\ IsSuccessRecord(result.value)
    /\ result.value.steps = 16
    /\ pipe_calls[1].num_inference_steps = 16

\* C8, as stated: an absent or unrecognized quality is processed as "basic"
\* (9 steps), an absent or unrecognized aspectRatio as "16:9" (1792 x 1008
\* when the table decides), and the request is not rejected for it.
C8_Original ==
    /\ (StepsResolved /\ (Quality.kind = "absent" \/ Quality.s \notin {"basic", "high"}))
          => StepsAre(9)
    /\ ( /\ DimsResolved
         /\ TableUsed
         /\ (Aspect.kind = "absent" \/ Aspect.s \notin {"16:9", "1:1", "9:16"}) )
          => DimsAre(<< 1792, 1008 >>)

\* C8, amended: an absent quality is processed as "basic" (9 steps) and an
\* unrecognized one as "high" (16 steps); an absent aspectRatio is processed
\* as "16:9" (1792 x 1008) and an unrecognized one as "1:1" (1024 x 1024), when
\* the table decides; and no request is rejected for such a value: with a
\* valid prompt and the table deciding, the request reaches the engine.
C8_Defaults ==
    /\ (StepsResolved /\ Quality.kind = "absent") => StepsAre(9)
    /\ (StepsResolved /\ Quality.kind = "str" /\ Quality.s \notin {"basic", "high"})
          => StepsAre(16)
    /\ (DimsResolved /\ TableUsed /\ Aspect.kind = "absent")
          => DimsAre(<< 1792, 1008 >>)
    /\ ( /\ DimsResolved
         /\ TableUsed
         /\ Aspect.kind = "str"
         /\ Aspect.s \notin {"16:9", "1:1", "9:16"} )
          => DimsAre(<< 1024, 1024 >>)
    /\ (Done /\ PromptValid /\ TableUsed) => pipe_calls # <<>>

\* C8's case: an unrecognized quality and an unrecognized aspectRatio reached
\* the engine as 16 steps and 1024 x 1024.
C8_Witness ==
    /\ Quality = Str("ultra")
    /\ Aspect = Str("4:3")
    /\ TableUsed
    /\ pipe_calls # <<>>
    /\ pipe_calls[1].num_inference_steps = 16
    /\ pipe_calls[1].width = 1024
    /\ pipe_calls[1].height = 1024

\* ------------------------------------------------------ failure handling
ClearCalls == { i \in DOMAIN calls : calls[i].fn = "empty_cache" }
SaveCalls == { i \in DOMAIN calls : calls[i].fn = "save" }
OutOfMemoryRecord ==
    ErrorRecord(
        "GPU out of memory. Please try with a different aspect ratio or retry.",
        NoArg)

\* C9, as stated: when the engine signals out-of-memory the device memory is
\* cleared exactly once, on every device configuration, and on no other path.
C9_Original ==
    /\ EngineRaised("OutOfMemoryError") => Cardinality(ClearCalls) = 1
    /\ ~EngineRaised("OutOfMemoryError") => ClearCalls = {}

\* C9, amended: when the engine signals out-of-memory the device memory is
\* cleared exactly once if torch.cuda.is_available() and not at all if it is
\* not, after the engine call and by the time the call has returned; the
\* engine is not called again and the error returned suggests a retry or a
\* different aspect ratio.  The memory is cleared on no other path.
C9_OutOfMemory ==
    /\ EngineRaised("OutOfMemoryError") =>
        /\ Done
        /\ result = Returned(OutOfMemoryRecord)
        /\ Cardinality(EngineCalls) = 1
        /\ Len(pipe_calls) = 1
        /\ Cardinality(ClearCalls) = (IF cuda_available THEN 1 ELSE 0)
        /\ \A i \in ClearCalls : \A k \in EngineCalls : k < i
    /\ ~EngineRaised("OutOfMemoryError") => ClearCalls = {}

\* C9's case: out-of-memory on a device with CUDA; the memory was cleared and
\* the error returned.
C9_Witness ==
    /\ Done
    /\ cuda_available
    /\ EngineRaised("OutOfMemoryError")
    /\ Cardinality(ClearCalls) = 1
    /\ result = Returned(OutOfMemoryRecord)

\* C10: a failure after validation gives the one message of its stage and
\* kind: engine out-of-memory the out-of-memory message (never "Generation
\* failed"), another engine RuntimeError "Generation failed: <message>", any
\* other engine exception "Image generation failed: <message>", an encoding of
\* zero bytes "Generated image is empty", an exception of the encoder "Image
\* encoding failed: <message>"; none gives the catch-all "Unexpected error".
C10_FailureMessages ==
    /\ \A i \in EngineCalls :
        calls[i].exc # NoExc =>
            result = Returned(
                IF calls[i].exc.cls = "OutOfMemoryError" THEN OutOfMemoryRecord
                ELSE IF calls[i].exc.cls = "RuntimeError"
                    THEN ErrorRecord("Generation failed: {}",
                                     StrArg(calls[i].exc.msg))
                ELSE ErrorRecord("Image generation failed: {}",
                                 StrArg(calls[i].exc.msg)))
    /\ \A i \in SaveCalls :
        /\ calls[i].exc # NoExc =>
            result = Returned(ErrorRecord("Image encoding failed: {}",
                                          StrArg(calls[i].exc.msg)))
        /\ (calls[i].exc = NoExc /\ image_bytes = <<>>) =>
            result = Returned(ErrorRecord("Generated image is empty", NoArg))
    /\ (calls # <<>> /\ HasReturned /\ IsErrorRecord(result.value)) =>
        result.value.error.fmt \notin
            {"Unexpected error: {}", "Missing required field: {}"}

\* C10's case: the engine raised a KeyError, which the inner clause reports,
\* not the outer "Missing required field".
C10_Witness ==
    /\ Done
    /\ EngineRaised("KeyError")
    /\ result = Returned(ErrorRecord("Image generation failed: {}",
                                     StrArg("engine message")))

====
